---- MODULE Spec2Model ----
(***************************************************************************)
(* hydra-cli (src/hydra-cli.js): class Program.  One process runs one      *)
(* command: main() reads the config file, the readFile callback parses it  *)
(* and dispatches on process.argv, the handler runs its synchronous part   *)
(* and leaves callbacks pending; each later action is one callback of the  *)
(* event loop.  Strings the code searches or splits are sequences of       *)
(* one-character strings.                                                  *)
(***************************************************************************)
EXTENDS Integers, Sequences, FiniteSets, TLC

VARIABLES
    pc,          \* "start" | "readFile" | "running" | "exited"
    argv,        \* process.argv.slice(2)
    configData,  \* this.configData
    redisdb,     \* this.redisdb is non-null
    conn,        \* the store connection as the store sees it
    out,         \* the lines written by console.log, in order
    timers,      \* pending exitApp timers (setTimeout ... 250)
    pend,        \* pending callbacks: store replies, file loads, requests, prompts
    called,      \* the handlers main() has invoked, in order
    queries,     \* the commands issued on this.redisdb, in order
    net,         \* parseRoute's result and the calls made to config.init / hydra
    rt,          \* handleRoutes' serviceNames, promises and the Promise.all chain
    reply,       \* what the environment replied: the config file's state, the
                 \* hash, the keys, each route set read (in completion order),
                 \* the health logs; and the config file written
    fault,       \* "none" | "unhandledRejection" | "uncaught"
    exitVia      \* "none" | "direct" | "exitApp" | "drain" | "uncaught"

vars == <<pc, argv, configData, redisdb, conn, out, timers, pend, called,
          queries, net, rt, reply, fault, exitVia>>

----------------------------------------------------------------------------
(* Bounds of the model *)

MaxNodes == 2        \* fields of the hydra:service:nodes hash
MaxServices == 2     \* route keys the store returns for *:routes
MaxInstances == 2    \* health-log keys the store returns for a service
MaxLog == 2          \* entries of one stored health log

----------------------------------------------------------------------------
(* Strings *)

Undefined == <<"undefined">>            \* what a template prints for undefined
redisPreKey == <<"h","y","d","r","a",":","s","e","r","v","i","c","e">>

w_help == <<"h","e","l","p">>
w_config == <<"c","o","n","f","i","g">>
w_list == <<"l","i","s","t">>
w_message == <<"m","e","s","s","a","g","e">>
w_create == <<"c","r","e","a","t","e">>
w_send == <<"s","e","n","d">>
w_nodes == <<"n","o","d","e","s">>
w_remove == <<"r","e","m","o","v","e">>
w_rest == <<"r","e","s","t">>
w_routes == <<"r","o","u","t","e","s">>
w_healthlog == <<"h","e","a","l","t","h","l","o","g">>
w_Help == <<"H","e","l","p">>
w_bogus == <<"x">>
w_file == <<"f">>
w_extra == <<"g">>
w_id == <<"i","d">>
w_svc == <<"a","b">>

\* Service names the registry holds, and the name filters given on the
\* command line: upper and lower case, prefixes, infixes, a filter that
\* matches nothing and the empty filter.
ServiceNames == { <<"a","b">>, <<"A","b">>, <<"b">>, <<"b","a">> }
Filters == { <<>>, <<"a">>, <<"b">>, <<"a","b">>, <<"A">>, <<"c">> }

\* String.prototype.indexOf(needle): the first 0-based position at which
\* needle occurs in hay, -1 when there is none.
RECURSIVE IndexFrom(_, _, _)
IndexFrom(hay, needle, i) ==
    IF i + Len(needle) > Len(hay) THEN -1
    ELSE IF SubSeq(hay, i + 1, i + Len(needle)) = needle THEN i
    ELSE IndexFrom(hay, needle, i + 1)

indexOf(hay, needle) == IndexFrom(hay, needle, 0)

\* String.prototype.split(sep) for a one-character separator.
RECURSIVE SplitFrom(_, _, _, _)
SplitFrom(str, sep, i, cur) ==
    IF i > Len(str) THEN <<cur>>
    ELSE IF str[i] = sep THEN <<cur>> \o SplitFrom(str, sep, i + 1, <<>>)
    ELSE SplitFrom(str, sep, i + 1, Append(cur, str[i]))

split(str, sep) == SplitFrom(str, sep, 1, <<>>)

\* args[i] with JavaScript's 0-based index; a missing element is undefined.
At(args, i) == IF i + 1 <= Len(args) THEN args[i + 1] ELSE Undefined

\* `${redisPreKey}:${serviceName}:service:routes`
routesKeyOf(serviceName) ==
    redisPreKey \o <<":">> \o serviceName \o
    <<":","s","e","r","v","i","c","e",":","r","o","u","t","e","s">>

----------------------------------------------------------------------------
(* Inputs *)

Argvs ==
    { <<>>, <<w_help>>, <<w_bogus>>,
      <<w_config>>, <<w_config, w_list>>,
      <<w_message>>, <<w_message, w_create>>, <<w_message, w_bogus>>,
      <<w_message, w_send>>, <<w_message, w_send, w_file>>,
      <<w_message, w_send, w_file, w_extra>>,
      <<w_nodes>>, <<w_nodes, w_list>>, <<w_nodes, w_bogus>>,
      <<w_nodes, w_list, w_file, w_extra>>,
      <<w_nodes, w_remove>>, <<w_nodes, w_remove, w_id>>,
      <<w_nodes, w_remove, w_id, w_extra>>,
      <<w_rest>>, <<w_rest, w_svc>>, <<w_rest, w_svc, w_file>>,
      <<w_rest, w_svc, w_file, w_extra>>,
      <<w_help, w_extra>>, <<w_bogus, w_list>>, <<w_list>>, <<w_config, w_bogus>>,
      <<w_message, w_list>>, <<w_nodes, w_create>>, <<w_Help>>,
      <<w_routes>>, <<w_routes, w_file, w_extra>>,
      <<w_healthlog>>, <<w_healthlog, w_svc>> }
    \cup { <<w_nodes, w_list, f>> : f \in Filters }
    \cup { <<w_routes, f>> : f \in Filters }

\* The config file: absent, not JSON, or a JSON object.  Database "0" exists
\* in the store, database "99" does not.
NullConfig == [isNull |-> TRUE, redisUrl |-> "", redisPort |-> "", redisDb |-> ""]
ConfigObject(db) ==
    [isNull |-> FALSE, redisUrl |-> "127.0.0.1", redisPort |-> "6379", redisDb |-> db]
ValidDbs == {"0"}
ConfigFiles ==
    { [st |-> "missing", val |-> NullConfig], [st |-> "corrupt", val |-> NullConfig] }
    \cup { [st |-> "json", val |-> ConfigObject(db)] : db \in {"0", "99"} }

\* UMFMessage.parseRoute's results: an error, or a route whose httpMethod is
\* absent ("") or one of the HTTP verbs.
NoRoute == [parsed |-> FALSE, error |-> FALSE, httpMethod |-> ""]
Routes ==
    { [parsed |-> TRUE, error |-> TRUE, httpMethod |-> ""] }
    \cup { [parsed |-> TRUE, error |-> FALSE, httpMethod |-> m] :
             m \in {"", "get", "post", "put", "delete"} }

\* JavaScript values that reach console.log: tagged with their type.
JsUndefined == [t |-> "undefined", v |-> ""]
JsString(str) == [t |-> "string", v |-> str]
JsObject(text) == [t |-> "object", v |-> text]

\* Texts that are JSON, with the value each parses to; any other text is not.
JsonTexts == { "{\"a\":1}" }
NonJsonTexts == { "not-json" }

\* Utils.safeJSONParse: the parsed value, or a falsy value (undefined) when
\* the text does not parse; displayJSON tests its result with !js.
safeJSONParse(str) == IF str \in JsonTexts THEN JsObject(str) ELSE JsUndefined

----------------------------------------------------------------------------
(* The program state as one record, so that a handler reads like its code: *)
(* each statement maps the state before it to the state after it.          *)

Cur ==
    [pc |-> pc, configData |-> configData, redisdb |-> redisdb, conn |-> conn,
     out |-> out, timers |-> timers, pend |-> pend, called |-> called,
     queries |-> queries, net |-> net, rt |-> rt, reply |-> reply,
     fault |-> fault, exitVia |-> exitVia]

Install(s) ==
    /\ pc' = s.pc
    /\ configData' = s.configData
    /\ redisdb' = s.redisdb
    /\ conn' = s.conn
    /\ out' = s.out
    /\ timers' = s.timers
    /\ pend' = s.pend
    /\ called' = s.called
    /\ queries' = s.queries
    /\ net' = s.net
    /\ rt' = s.rt
    /\ reply' = s.reply
    /\ fault' = s.fault
    /\ exitVia' = s.exitVia
    /\ argv' = argv

\* console.log: k is the line's fixed text or kind, v what is interpolated.
log(s, k, v) == [s EXCEPT !.out = Append(@, [k |-> k, v |-> v])]

\* process.exit(), called from `via`.
processExit(s, via) == [s EXCEPT !.pc = "exited", !.exitVia = via]

\* A pending callback: the operation, the handler that awaits it, an index.
Op(op, h, i) == [op |-> op, h |-> h, i |-> i]
await(s, op, h, i) == [s EXCEPT !.pend = @ \cup {Op(op, h, i)}]
done(s, op, h, i) == [s EXCEPT !.pend = @ \ {Op(op, h, i)}]
query(s, cmd, arg) == [s EXCEPT !.queries = Append(@, [cmd |-> cmd, arg |-> arg])]
enter(s, h) == [s EXCEPT !.called = Append(@, h)]

displayHelp(s) == log(s, "help", <<>>)

\* exitApp: arms the 250 ms timer; ExitTimer below is its callback.
exitApp(s) == [s EXCEPT !.timers = @ + 1]

\* redisConnect: with configData null the executor throws a TypeError on
\* this.configData.redisPort, the promise is rejected, and no caller attaches
\* a rejection handler.  Otherwise createClient opens the connection and
\* select is sent.
redisConnect(s, h) ==
    IF s.configData.isNull
    THEN [s EXCEPT !.fault = "unhandledRejection"]
    ELSE await([s EXCEPT !.conn.opened = TRUE], "select", h, 0)

falsy(js) == js.t = "undefined"

displayJSON(s, json) ==
    IF json.t = "string"
    THEN LET js == safeJSONParse(json.v)
         IN  IF falsy(js) THEN log(s, "text", json) ELSE log(s, "json", js)
    ELSE log(s, "json", json)

----------------------------------------------------------------------------
(* The handlers' synchronous parts *)

handleConfigCommand(s0, args) ==
    LET s == enter(s0, "handleConfigCommand")
    IN  IF Len(args) = 1 /\ args[1] = w_list
        THEN processExit(log(s, "config", s.configData), "direct")
        ELSE await(s, "question", "handleConfigCommand", 1)

handleMessageCreate(s0, args) ==
    LET s == enter(s0, "handleMessageCreate")
    IN  exitApp(displayJSON(s, JsObject("umf-template")))

handleMessageSend(s0, args) ==
    LET s == enter(s0, "handleMessageSend")
    IN  IF Len(args) # 2
        THEN exitApp(log(s, "Invalid number of parameters", <<>>))
        ELSE await([s EXCEPT !.net.loads = @ + 1], "configInit", "handleMessageSend", 0)

handleNodesList(s0, args) ==
    redisConnect(enter(s0, "handleNodesList"), "handleNodesList")

handleNodesRemove(s0, args) ==
    LET s == enter(s0, "handleNodesRemove")
        s1 == IF Len(args) # 2
              THEN exitApp(log(s, "Missing parameter id", <<>>))
              ELSE s
    IN  redisConnect(s1, "handleNodesRemove")

resolvedMethod(route) == IF route.httpMethod # "" THEN route.httpMethod ELSE "get"

\* payloadRejected with the delete method forgotten.
payloadRejectedGetOnly(method, args) == method = "get" /\ Len(args) > 1

payloadRejected(method, args) == (method = "get" \/ method = "delete") /\ Len(args) > 1

handleRest(s0, args, route) ==
    LET s == [enter(s0, "handleRest") EXCEPT !.net.route = route]
        method == resolvedMethod(route)
    IN  IF route.error
        THEN exitApp(log(s, "route.error", <<>>))
        ELSE IF payloadRejected(method, args)
        THEN exitApp(log(s, "Payload not allowed for HTTP method", method))
        ELSE IF Len(args) > 1
        THEN await([s EXCEPT !.net.loads = @ + 1], "configInit", "handleRest", 0)
        ELSE await([s EXCEPT !.net.requests = @ + 1], "apiRequest", "handleRest", 0)

handleRoutes(s0, args) ==
    redisConnect(enter(s0, "handleRoutes"), "handleRoutes")

handleHealthLog(s0, args) ==
    redisConnect(enter(s0, "handleHealthLog"), "handleHealthLog")

----------------------------------------------------------------------------
(* main *)

\* fs.readFile's callback up to the switch: an absent file leaves configData
\* as constructed, a file that does not parse sets it to null.  hydra.init
\* (line 86) configures the external library and leaves this state alone.
loadConfig(file, prev) ==
    IF file.st = "missing" THEN prev
    ELSE IF file.st = "json" THEN file.val
    ELSE NullConfig

\* nodesSwitch without the args.length === 0 case of its default branch.
nodesSwitchNoBare(s, args) ==
    IF At(args, 0) = w_list THEN handleNodesList(s, args)
    ELSE IF At(args, 0) = w_remove THEN handleNodesRemove(s, args)
    ELSE exitApp(log(s, "Unknown nodes options: ", At(args, 0)))

nodesSwitch(s, args) ==
    IF At(args, 0) = w_list THEN handleNodesList(s, args)
    ELSE IF At(args, 0) = w_remove THEN handleNodesRemove(s, args)
    ELSE IF Len(args) = 0 THEN handleNodesList(s, args)
    ELSE exitApp(log(s, "Unknown nodes options: ", At(args, 0)))

messageSwitch(s, args) ==
    IF At(args, 0) = w_create THEN handleMessageCreate(s, args)
    ELSE IF At(args, 0) = w_send THEN handleMessageSend(s, args)
    ELSE exitApp(log(s, "Unknown message options: ", At(args, 0)))

dispatch(s, command, args, route) ==
    IF command = w_config THEN handleConfigCommand(s, args)
    ELSE IF command = w_help
    THEN processExit(displayHelp(enter(s, "displayHelp")), "direct")
    ELSE IF command = w_message THEN messageSwitch(s, args)
    ELSE IF command = w_nodes THEN nodesSwitch(s, args)
    ELSE IF command = w_rest THEN handleRest(s, args, route)
    ELSE IF command = w_routes THEN handleRoutes(s, args)
    ELSE IF command = w_healthlog THEN handleHealthLog(s, args)
    ELSE exitApp(log(s, "Unknown command: ", command))

Init ==
    /\ pc = "start"
    /\ argv \in Argvs
    /\ configData = NullConfig
    /\ redisdb = FALSE
    /\ conn = [opened |-> FALSE, selected |-> FALSE, selectErr |-> FALSE, quit |-> FALSE]
    /\ out = <<>>
    /\ timers = 0
    /\ pend = {}
    /\ called = <<>>
    /\ queries = <<>>
    /\ net = [route |-> NoRoute, loads |-> 0, sends |-> 0, requests |-> 0]
    /\ rt = [serviceNames |-> <<>>, promises |-> <<>>, chain |-> "idle", firstErr |-> 0]
    /\ reply = [hash |-> [null |-> TRUE, fields |-> <<>>], keys |-> <<>>,
                keysDone |-> FALSE, keysErr |-> FALSE, reads |-> <<>>,
                lists |-> <<>>, file |-> NullConfig, configFile |-> "unread"]
    /\ fault = "none"
    /\ exitVia = "none"

\* main(), lines 63-70: without a command, the help text and an immediate exit.
Main ==
    /\ pc = "start"
    /\ IF Len(argv) < 1
       THEN Install(processExit(displayHelp(Cur), "direct"))
       ELSE Install([Cur EXCEPT !.pc = "readFile"])

\* fs.readFile's callback, lines 70-149: the config, then the switch and the
\* synchronous part of the handler it calls.
ReadFileCb ==
    /\ pc = "readFile"
    /\ \E file \in ConfigFiles :
       \E route \in (IF argv[1] = w_rest THEN Routes ELSE {NoRoute}) :
          LET s == [Cur EXCEPT !.configData = loadConfig(file, configData),
                               !.reply.configFile = file.st,
                               !.pc = "running"]
          IN  Install(dispatch(s, argv[1], Tail(argv), route))

\* exitApp's timer callback, lines 172-179.
ExitTimer ==
    /\ pc = "running"
    /\ timers > 0
    /\ LET s1 == [Cur EXCEPT !.timers = @ - 1]
           s2 == IF s1.redisdb THEN [s1 EXCEPT !.conn.quit = TRUE] ELSE s1
       IN  Install(processExit(log(s2, " ", <<>>), "exitApp"))

\* Nothing is pending and no handle is open: node leaves the event loop.
EventLoopDrained ==
    /\ pc = "running"
    /\ timers = 0
    /\ pend = {}
    /\ ~conn.opened
    /\ Install(processExit(Cur, "drain"))

----------------------------------------------------------------------------
(* The store connection *)

Pending(op, h, i) == pc = "running" /\ Op(op, h, i) \in pend

StoreHandlers == {"handleNodesList", "handleNodesRemove", "handleRoutes", "handleHealthLog"}

\* redisdb.select's callback, lines 160-163.  err is set when the connection
\* was refused or the configured database does not exist.
selectCallback(s, h, err) ==
    await([done(s, "select", h, 0) EXCEPT
              !.redisdb = TRUE,
              !.conn.selected = ~err,
              !.conn.selectErr = err],
          "connected", h, 0)

RedisSelectCb ==
    \E h \in StoreHandlers :
       /\ Pending("select", h, 0)
       /\ \E err \in BOOLEAN :
             /\ (configData.redisDb \notin ValidDbs) => err
             /\ Install(selectCallback(Cur, h, err))

----------------------------------------------------------------------------
(* nodes list *)

Nows == {10999}           \* moment.now()
UpdatedOns == {5000}      \* updatedOn of a stored node, as epoch milliseconds

InstanceIds == <<"id1", "id2", "id3", "id4">>

NoItem == [instanceID |-> "", serviceName |-> <<>>, updatedOn |-> 0]

\* A field value of the nodes hash: the JSON text of a ServiceNode, or a
\* text that is not JSON.
NodeText(i, name, u) ==
    [json |-> TRUE, item |-> [instanceID |-> InstanceIds[i], serviceName |-> name,
                              updatedOn |-> u]]
GarbageText == [json |-> FALSE, item |-> NoItem]

FieldValues(i) ==
    { NodeText(i, n, u) : n \in ServiceNames, u \in UpdatedOns } \cup { GarbageText }

\* hgetall's replies: null, or the hash's fields in the order they are read.
NullHash == [null |-> TRUE, fields |-> <<>>]
Hashes ==
    { [null |-> FALSE, fields |-> f] :
        f \in UNION { { g \in [1..n -> UNION {FieldValues(i) : i \in 1..n}] :
                          \A i \in 1..n : g[i] \in FieldValues(i) } :
                      n \in 0..MaxNodes } }

\* parseInt(x / 1000): the quotient truncated toward zero.
parseIntDiv(x, d) == IF x >= 0 THEN x \div d ELSE -((-x) \div d)

elapsedOf(now, item) == parseIntDiv(now - item.updatedOn, 1000)

\* nodeIncluded with indexOf's result tested as > 0: a match at the start of
\* the name is missed.
nodeIncludedAfterStart(args, item) ==
    (Len(args) = 0 \/ Len(args) = 1)
    \/ (Len(args) = 2 /\ indexOf(item.serviceName, At(args, 1)) > 0)

\* The filter of line 366.
nodeIncluded(args, item) ==
    (Len(args) = 0 \/ Len(args) = 1)
    \/ (Len(args) = 2 /\ indexOf(item.serviceName, At(args, 1)) > -1)

\* Whether line 366-367 dereferences item: args.length decides it before
\* item is read.
nodeDereferenced(args) == Len(args) = 0 \/ Len(args) = 1 \/ Len(args) = 2

\* Object.keys(data).forEach, lines 364-370: the nodes pushed, or a TypeError
\* thrown on an item safeJSONParse could not parse.
RECURSIVE nodesForEach(_, _, _, _)
nodesForEach(fields, args, now, nodes) ==
    IF fields = <<>> THEN [threw |-> FALSE, nodes |-> nodes]
    ELSE LET text == Head(fields)
         IN  IF ~text.json /\ nodeDereferenced(args)
             THEN [threw |-> TRUE, nodes |-> nodes]
             ELSE IF text.json /\ nodeIncluded(args, text.item)
             THEN nodesForEach(Tail(fields), args, now,
                     Append(nodes, [instanceID |-> text.item.instanceID,
                                    serviceName |-> text.item.serviceName,
                                    updatedOn |-> text.item.updatedOn,
                                    elapsed |-> elapsedOf(now, text.item)]))
             ELSE nodesForEach(Tail(fields), args, now, nodes)

\* handleNodesList's then, lines 356-358.
NodesListConnected ==
    /\ Pending("connected", "handleNodesList", 0)
    /\ \E now \in Nows :
          Install(await(query(done(Cur, "connected", "handleNodesList", 0),
                              "hgetall", <<>>),
                        "hgetall", "handleNodesList", now))

\* hgetall's callback, lines 358-375.
hgetallCallback(s0, args, now, err, data) ==
    LET s == [s0 EXCEPT !.reply.hash = data]
    IN  IF err THEN exitApp(log(s, "error", "hgetall"))
        ELSE IF ~data.null
        THEN LET r == nodesForEach(data.fields, args, now, <<>>)
             IN  IF r.threw
                 THEN processExit([s EXCEPT !.fault = "uncaught"], "uncaught")
                 ELSE exitApp(log(s, "array", r.nodes))
        ELSE exitApp(s)

HgetallCb ==
    \E now \in Nows :
       /\ Pending("hgetall", "handleNodesList", now)
       /\ \E err \in BOOLEAN, data \in Hashes \cup {NullHash} :
             /\ err => data = NullHash
             /\ Install(hgetallCallback(done(Cur, "hgetall", "handleNodesList", now),
                                        Tail(argv), now, err, data))

----------------------------------------------------------------------------
(* nodes remove *)

\* handleNodesRemove's then, lines 390-391.
NodesRemoveConnected ==
    /\ Pending("connected", "handleNodesRemove", 0)
    /\ Install(await(query(done(Cur, "connected", "handleNodesRemove", 0),
                           "hdel", At(Tail(argv), 1)),
                     "hdel", "handleNodesRemove", 0))

\* hdel's callback, lines 391-398.
hdelCallback(s, args, err) ==
    IF err THEN exitApp(log(s, "error", "hdel"))
    ELSE exitApp(log(s, "nodes entry removed", At(args, 1)))

HdelCb ==
    /\ Pending("hdel", "handleNodesRemove", 0)
    /\ \E err \in BOOLEAN :
          Install(hdelCallback(done(Cur, "hdel", "handleNodesRemove", 0),
                               Tail(argv), err))

----------------------------------------------------------------------------
(* getKeys / getRoutes *)

\* getKeys' callback, lines 190-196: an error resolves to no keys.
getKeysResult(err, result) == IF err THEN <<>> ELSE result

\* getRoutesResult with getKeys' policy: an error resolves to no routes.
getRoutesResultLenient(err, result) ==
    IF err THEN [st |-> "resolved", val |-> {}]
    ELSE [st |-> "resolved", val |-> result]

\* getRoutes' callback, lines 210-216: a promise settled with the result or
\* rejected with the error.
NewPromise == [st |-> "pending", val |-> {}]
getRoutesResult(err, result) ==
    IF err THEN [st |-> "rejected", val |-> {}]
    ELSE [st |-> "resolved", val |-> result]

----------------------------------------------------------------------------
(* routes *)

\* Sequences of n distinct elements of S.
Arrangements(S, n) ==
    { q \in [1..n -> S] : \A i, j \in 1..n : i # j => q[i] # q[j] }

\* keys' replies for *:routes: the route keys of distinct services, in any
\* order the store enumerates them.
RouteKeySeqs ==
    UNION { { [i \in 1..n |-> routesKeyOf(q[i])] : q \in Arrangements(ServiceNames, n) } :
            n \in 0..MaxServices }

\* smembers' replies: the route patterns a service registered.
RouteSets == { {"[get]/a"}, {"[get]/a", "[post]/b"} }

\* handleRoutes' first then, lines 472-475.
RoutesConnected ==
    /\ Pending("connected", "handleRoutes", 0)
    /\ Install(await(query([done(Cur, "connected", "handleRoutes", 0) EXCEPT
                               !.rt = [serviceNames |-> <<>>, promises |-> <<>>,
                                       chain |-> "keys", firstErr |-> 0]],
                           "keys", <<"*",":","r","o","u","t","e","s">>),
                     "keys", "handleRoutes", 0))

\* The filter of line 480.
routeIncluded(args, serviceName) ==
    Len(args) = 0 \/ (Len(args) = 1 /\ indexOf(serviceName, At(args, 0)) > -1)

\* serviceRoutes.forEach, lines 477-484: each matching service is pushed on
\* serviceNames and its getRoutes promise on promises.
RECURSIVE routesForEach(_, _, _)
routesForEach(s, serviceRoutes, args) ==
    IF serviceRoutes = <<>> THEN s
    ELSE LET segments == split(Head(serviceRoutes), ":")
             serviceName == segments[3]
         IN  IF routeIncluded(args, serviceName)
             THEN LET idx == Len(s.rt.promises) + 1
                      s1 == [s EXCEPT !.rt.serviceNames = Append(@, serviceName),
                                      !.rt.promises = Append(@, NewPromise)]
                  IN  routesForEach(
                         await(query(s1, "smembers", routesKeyOf(serviceName)),
                               "smembers", "handleRoutes", idx),
                         Tail(serviceRoutes), args)
             ELSE routesForEach(s, Tail(serviceRoutes), args)

\* getKeys' callback and the then of lines 476-486.
routesKeysCallback(s0, args, err, result) ==
    LET s == [s0 EXCEPT !.reply.keys = result, !.reply.keysDone = TRUE,
                        !.reply.keysErr = err]
    IN  [routesForEach(s, getKeysResult(err, result), args) EXCEPT !.rt.chain = "all"]

RoutesKeysCb ==
    /\ Pending("keys", "handleRoutes", 0)
    /\ \E err \in BOOLEAN, result \in RouteKeySeqs :
          /\ err => result = <<>>
          /\ Install(routesKeysCallback(done(Cur, "keys", "handleRoutes", 0),
                                        Tail(argv), err, result))

\* getRoutesCallback storing each result in the first promise still pending:
\* the results end up in completion order.
getRoutesCallbackInCompletionOrder(s, idx, err, result) ==
    LET free == CHOOSE i \in 1..Len(s.rt.promises) :
                    /\ s.rt.promises[i].st = "pending"
                    /\ \A j \in 1..(i - 1) : s.rt.promises[j].st # "pending"
    IN  [s EXCEPT !.rt.promises[free] = getRoutesResult(err, result),
                  !.rt.firstErr = IF err /\ @ = 0 THEN idx ELSE @,
                  !.reply.reads = Append(@, [key |-> routesKeyOf(s.rt.serviceNames[idx]),
                                             err |-> err, val |-> result])]

\* smembers' callback for the idx-th promise.
getRoutesCallback(s, idx, err, result) ==
    [s EXCEPT !.rt.promises[idx] = getRoutesResult(err, result),
              !.rt.firstErr = IF err /\ @ = 0 THEN idx ELSE @,
              !.reply.reads = Append(@, [key |-> routesKeyOf(s.rt.serviceNames[idx]),
                                         err |-> err, val |-> result])]

GetRoutesCb ==
    \E idx \in 1..Len(rt.promises) :
       /\ Pending("smembers", "handleRoutes", idx)
       /\ \E err \in BOOLEAN, result \in RouteSets :
             /\ err => result = {"[get]/a"}
             /\ Install(getRoutesCallback(done(Cur, "smembers", "handleRoutes", idx),
                                          idx, err, result))

\* Promise.all(promises) is fulfilled: every promise is.
allFulfilled(promises) == \A i \in 1..Len(promises) : promises[i].st = "resolved"

\* Promise.all(promises) is rejected: some promise is.
anyRejected(promises) == \E i \in 1..Len(promises) : promises[i].st = "rejected"

\* resObj[key] = val on an object whose own keys are kept in insertion order.
objSet(obj, key, val) ==
    IF \E i \in 1..Len(obj) : obj[i].key = key
    THEN [i \in 1..Len(obj) |-> IF obj[i].key = key THEN [key |-> key, val |-> val]
                                 ELSE obj[i]]
    ELSE Append(obj, [key |-> key, val |-> val])

\* routes.forEach, lines 488-493.
RECURSIVE resObjOf(_, _, _, _)
resObjOf(routes, serviceNames, idx, resObj) ==
    IF idx > Len(routes) THEN resObj
    ELSE resObjOf(routes, serviceNames, idx + 1,
                  objSet(resObj, serviceNames[idx], routes[idx]))

\* The second then, lines 487-496.
routesThen(s) ==
    LET routes == [i \in 1..Len(s.rt.promises) |-> s.rt.promises[i].val]
    IN  exitApp(log([s EXCEPT !.rt.chain = "done"], "object",
                    resObjOf(routes, s.rt.serviceNames, 1, <<>>)))

RoutesThen ==
    /\ pc = "running"
    /\ rt.chain = "all"
    /\ allFulfilled(rt.promises)
    /\ Install(routesThen(Cur))

\* The catch, lines 497-500: the first rejection's error.
routesCatch(s) ==
    exitApp(log([s EXCEPT !.rt.chain = "caught"], "error",
                s.rt.serviceNames[s.rt.firstErr]))

RoutesCatch ==
    /\ pc = "running"
    /\ rt.chain = "all"
    /\ anyRejected(rt.promises)
    /\ Install(routesCatch(Cur))

----------------------------------------------------------------------------
(* healthlog *)

InstanceKeys == <<"k1", "k2", "k3", "k4">>

\* keys' replies for *:<svc>:*:health:log.
InstanceSeqs == { [i \in 1..n |-> InstanceKeys[i]] : n \in 0..MaxInstances }

\* The stored health logs: entries that are JSON and entries that are not.
EntryLists ==
    UNION { [1..n -> JsonTexts \cup NonJsonTexts] : n \in 0..MaxLog }

lrangeStop == 100

\* LRANGE key start stop: the elements from start to stop, both included.
lrange(list, start, stop) ==
    SubSeq(list, start + 1, IF stop + 1 < Len(list) THEN stop + 1 ELSE Len(list))

\* JSON.stringify writes an undefined array element as null.
JsNull == [t |-> "null", v |-> ""]
stringified(js) == IF js.t = "undefined" THEN JsNull ELSE js

\* handleHealthLog's then, lines 280-281.
HealthLogConnected ==
    /\ Pending("connected", "handleHealthLog", 0)
    /\ Install(await(query(done(Cur, "connected", "handleHealthLog", 0),
                           "keys", At(Tail(argv), 0)),
                     "keys", "handleHealthLog", 0))

RECURSIVE lrangeForEach(_, _)
lrangeForEach(s, instances) ==
    IF instances = <<>> THEN s
    ELSE lrangeForEach(query(s, "lrange", <<Head(instances)>>), Tail(instances))

\* getKeys' callback and the then of lines 282-306, up to trans.exec.
healthKeysCallback(s0, err, result) ==
    LET s == [s0 EXCEPT !.reply.keys = result, !.reply.keysDone = TRUE,
                        !.reply.keysErr = err]
        instances == getKeysResult(err, result)
    IN  IF Len(instances) = 0
        THEN exitApp(log(s, "array", <<>>))
        ELSE await(query(lrangeForEach(s, instances), "exec", <<>>),
                   "exec", "handleHealthLog", Len(instances))

HealthKeysCb ==
    /\ Pending("keys", "handleHealthLog", 0)
    /\ \E err \in BOOLEAN, result \in InstanceSeqs :
          /\ err => result = <<>>
          /\ Install(healthKeysCallback(done(Cur, "keys", "handleHealthLog", 0),
                                        err, result))

\* The entry pushed on response, line 300.
healthEntry(entry) == safeJSONParse(entry)

\* trans.exec's callback, lines 292-306.
execCallback(s0, err, lists) ==
    LET s == [s0 EXCEPT !.reply.lists = lists]
        result == [i \in 1..Len(lists) |-> lrange(lists[i], 0, lrangeStop)]
    IN  IF err THEN exitApp(log(s, "error", "exec"))
        ELSE LET first == result[1]
                 response == [i \in 1..Len(first) |-> healthEntry(first[i])]
             IN  exitApp(log(s, "array",
                             [i \in 1..Len(response) |-> stringified(response[i])]))

HealthExecCb ==
    \E n \in 1..MaxInstances :
       /\ Pending("exec", "handleHealthLog", n)
       /\ \E err \in BOOLEAN, lists \in [1..n -> EntryLists] :
             /\ err => \A i \in 1..n : lists[i] = <<>>
             /\ Install(execCallback(done(Cur, "exec", "handleHealthLog", n), err, lists))

----------------------------------------------------------------------------
(* message send, rest, config *)

\* config.init's callback in handleMessageSend, lines 338-346.
sendLoaded(s, ok) ==
    IF ok THEN exitApp([s EXCEPT !.net.sends = @ + 1])
    ELSE exitApp(log(s, "error", "err.message"))

MessageLoadedCb ==
    /\ Pending("configInit", "handleMessageSend", 0)
    /\ \E ok \in BOOLEAN :
          Install(sendLoaded(done(Cur, "configInit", "handleMessageSend", 0), ok))

\* config.init's callback in handleRest, lines 425-445.
restLoaded(s, ok) ==
    IF ok THEN await([s EXCEPT !.net.requests = @ + 1], "apiRequest", "handleRest", 0)
    ELSE exitApp(log(s, "Unable to open", At(Tail(argv), 1)))

RestLoadedCb ==
    /\ Pending("configInit", "handleRest", 0)
    /\ \E ok \in BOOLEAN :
          Install(restLoaded(done(Cur, "configInit", "handleRest", 0), ok))

\* hydra.makeAPIRequest's responses.
Responses == { JsObject("{\"statusCode\":200}"), JsString("{\"a\":1}"), JsString("not-json") }

\* makeAPIRequest's callbacks, lines 432-439 and 453-460.
apiReplied(s, ok, res) ==
    IF ok THEN exitApp(displayJSON(s, res))
    ELSE exitApp(log(s, "error", "err"))

ApiRequestCb ==
    /\ Pending("apiRequest", "handleRest", 0)
    /\ \E ok \in BOOLEAN, res \in Responses :
          Install(apiReplied(done(Cur, "apiRequest", "handleRest", 0), ok, res))

\* The three nested prompts.question callbacks, lines 255-262: the third
\* merges the answers into the config and writes the file.  The config
\* object of the model has no other field the merge could keep.
questionAnswered(s, n, redisDb) ==
    IF n < 3 THEN await(s, "question", "handleConfigCommand", n + 1)
    ELSE await([s EXCEPT !.reply.file = ConfigObject(redisDb)],
               "writeFile", "handleConfigCommand", 0)

QuestionCb ==
    \E n \in 1..3 :
       /\ Pending("question", "handleConfigCommand", n)
       /\ \E redisDb \in {"0", "99"} :
             Install(questionAnswered(done(Cur, "question", "handleConfigCommand", n),
                                      n, redisDb))

\* fs.writeFile's callback, lines 262-267.
fileWritten(s, err) ==
    processExit(IF err THEN log(s, "error", "writeFile") ELSE s, "direct")

WriteFileCb ==
    /\ Pending("writeFile", "handleConfigCommand", 0)
    /\ \E err \in BOOLEAN :
          Install(fileWritten(done(Cur, "writeFile", "handleConfigCommand", 0), err))

Next ==
    \/ Main
    \/ ReadFileCb
    \/ ExitTimer
    \/ EventLoopDrained
    \/ RedisSelectCb
    \/ NodesListConnected
    \/ HgetallCb
    \/ NodesRemoveConnected
    \/ HdelCb
    \/ RoutesConnected
    \/ RoutesKeysCb
    \/ GetRoutesCb
    \/ RoutesThen
    \/ RoutesCatch
    \/ HealthLogConnected
    \/ HealthKeysCb
    \/ HealthExecCb
    \/ MessageLoadedCb
    \/ RestLoadedCb
    \/ ApiRequestCb
    \/ QuestionCb
    \/ WriteFileCb

Spec == Init /\ [][Next]_vars

\* The invocations that use the store: `nodes`, `nodes list`, `nodes remove`,
\* `routes` and `healthlog`, with the callbacks their handlers leave pending.
StoreArgvs ==
    { a \in Argvs :
        /\ Len(a) >= 1
        /\ \/ a[1] \in {w_routes, w_healthlog}
           \/ a[1] = w_nodes /\ (Len(a) = 1 \/ a[2] \in {w_list, w_remove}) }

StoreInit == Init /\ argv \in StoreArgvs

StoreNext ==
    \/ Main
    \/ ReadFileCb
    \/ ExitTimer
    \/ EventLoopDrained
    \/ RedisSelectCb
    \/ NodesListConnected
    \/ HgetallCb
    \/ NodesRemoveConnected
    \/ HdelCb
    \/ RoutesConnected
    \/ RoutesKeysCb
    \/ GetRoutesCb
    \/ RoutesThen
    \/ RoutesCatch
    \/ HealthLogConnected
    \/ HealthKeysCb
    \/ HealthExecCb

StoreSpec == StoreInit /\ [][StoreNext]_vars

----------------------------------------------------------------------------
(* Properties *)

HasCommand == Len(argv) >= 1
Command == argv[1]
Args == Tail(argv)
Dispatched == HasCommand /\ pc \in {"running", "exited"}
Lines(k) == { i \in 1..Len(out) : out[i].k = k }
ShutdownReached == timers > 0 \/ exitVia = "exitApp"
Issued(cmd) == { i \in 1..Len(queries) : queries[i].cmd = cmd }
StoreQueries == {"keys", "hgetall", "hdel", "smembers", "lrange", "exec"}

\* hay contains needle as a substring, case-sensitively.
Contains(hay, needle) ==
    \E i \in 0..(Len(hay) - Len(needle)) : SubSeq(hay, i + 1, i + Len(needle)) = needle

\* C1: every invocation with a command ends in exitApp: the process exits
\* only through exitApp's timer, and a store connection that was opened has
\* been quit by then.
C1_ExitsOnlyThroughExitApp ==
    (HasCommand /\ pc = "exited") =>
        (exitVia = "exitApp" /\ (conn.opened => conn.quit))

WrongArity(verb, sub) ==
    /\ Len(argv) >= 2
    /\ argv[1] = verb
    /\ argv[2] = sub
    /\ Len(Args) # 2

\* C2: `nodes remove` and `message send` with other than two positional
\* arguments print their diagnostic, go to shutdown and attempt nothing: no
\* store connection, no hdel, no file load, no message sent.
C2_WrongArityAttemptsNothing ==
    (Dispatched /\ (WrongArity(w_nodes, w_remove) \/ WrongArity(w_message, w_send))) =>
        /\ Lines("Missing parameter id") \cup Lines("Invalid number of parameters") # {}
        /\ ShutdownReached
        /\ ~conn.opened
        /\ Issued("hdel") = {}
        /\ net.loads = 0
        /\ net.sends = 0

MethodOf(route) == IF route.httpMethod = "" THEN "get" ELSE route.httpMethod

\* C3: `rest` with a payload argument and a resolved method of get or delete
\* (get when the route names none) prints the rejection, goes to shutdown,
\* and neither loads the payload nor makes the request; a route that parses
\* with an error makes no request either.
C3_RestRejectsPayload ==
    (Dispatched /\ Command = w_rest) =>
        /\ (~net.route.error /\ Len(Args) > 1 /\ MethodOf(net.route) \in {"get", "delete"}) =>
              /\ Lines("Payload not allowed for HTTP method") # {}
              /\ ShutdownReached
              /\ net.loads = 0
              /\ net.requests = 0
        /\ net.route.error =>
              /\ ShutdownReached
              /\ net.loads = 0
              /\ net.requests = 0

C3_Witness ==
    /\ HasCommand
    /\ Command = w_rest
    /\ Len(Args) > 1
    /\ ~net.route.error
    /\ net.route.httpMethod = "delete"
    /\ Lines("Payload not allowed for HTTP method") # {}
    /\ exitVia = "exitApp"

StoreCommand ==
    \/ Command \in {w_routes, w_healthlog}
    \/ Command = w_nodes /\ (Args = <<>> \/ Args[1] \in {w_list, w_remove})

\* C4: with the config file missing or corrupt, startup leaves configData
\* null, and every store-dependent command then reports an error and goes to
\* shutdown: no unhandled rejection, no uncaught exception.
C4_UnconfiguredFailsCleanly ==
    (Dispatched /\ reply.configFile \in {"missing", "corrupt"}) =>
        /\ configData.isNull
        /\ StoreCommand =>
              /\ fault = "none"
              /\ pc = "exited" => (exitVia = "exitApp" /\ Lines("error") # {})

\* C5: after a failed connect+select the handler prints the error and goes
\* to shutdown, and no store query is issued.
C5_NoQueryAfterFailedConnect ==
    conn.selectErr =>
        /\ \A i \in 1..Len(queries) : queries[i].cmd \notin StoreQueries
        /\ pc = "exited" => (exitVia = "exitApp" /\ Lines("error") # {})

NodesListCommand ==
    /\ HasCommand
    /\ Command = w_nodes
    /\ Args = <<>> \/ (Args[1] = w_list /\ Len(Args) <= 2)

NodeFilter == IF Len(Args) = 2 THEN Args[2] ELSE <<>>

StoredNodes ==
    [i \in 1..Len(reply.hash.fields) |-> reply.hash.fields[i].item]

IdAndName(item) == [instanceID |-> item.instanceID, serviceName |-> item.serviceName]

ExpectedNodes ==
    LET match(item) == Contains(item.serviceName, NodeFilter)
        kept == SelectSeq(StoredNodes, match)
    IN  [i \in 1..Len(kept) |-> IdAndName(kept[i])]

PrintedNodes(line) == [i \in 1..Len(line.v) |-> IdAndName(line.v[i])]

\* C6: `nodes list [filter]` over a non-null hash of stored nodes prints the
\* nodes whose serviceName contains the filter, in the order the fields were
\* read; all of them without a filter or with the empty filter, none (an
\* empty array) when nothing matches.
C6_NodesListFilter ==
    (/\ NodesListCommand
     /\ ~reply.hash.null
     /\ \A i \in 1..Len(reply.hash.fields) : reply.hash.fields[i].json) =>
        /\ Cardinality(Lines("array")) = 1
        /\ \A i \in Lines("array") : PrintedNodes(out[i]) = ExpectedNodes

C6_Witness ==
    /\ NodesListCommand
    /\ NodeFilter = <<"a">>
    /\ ~reply.hash.null
    /\ Len(reply.hash.fields) = 2
    /\ reply.hash.fields[1].json /\ reply.hash.fields[1].item.serviceName = <<"A","b">>
    /\ reply.hash.fields[2].json /\ reply.hash.fields[2].item.serviceName = <<"b","a">>
    /\ \E i \in Lines("array") : Len(out[i].v) = 1
    /\ exitVia = "exitApp"

RoutesCommand == HasCommand /\ Command = w_routes /\ Len(Args) <= 1

ServiceOfKey(key) == CHOOSE n \in ServiceNames : routesKeyOf(n) = key

DiscoveredServices == [i \in 1..Len(reply.keys) |-> ServiceOfKey(reply.keys[i])]

PassingServices ==
    LET pass(n) == Len(Args) = 0 \/ Contains(n, Args[1])
    IN  SelectSeq(DiscoveredServices, pass)

ReadOf(n) == { r \in { reply.reads[i] : i \in 1..Len(reply.reads) } : r.key = routesKeyOf(n) }

HealthLogCommand == HasCommand /\ Command = w_healthlog

ParsedOrRaw(entry) == IF entry \in JsonTexts THEN JsObject(entry) ELSE JsString(entry)

ExpectedHealthLog ==
    LET n == IF Len(reply.lists[1]) < 101 THEN Len(reply.lists[1]) ELSE 101
    IN  [i \in 1..n |-> ParsedOrRaw(reply.lists[1][i])]

\* C8: `healthlog <svc>` prints exactly [] and issues no batch read when no
\* instance key matches; with one matching instance it prints one element
\* per stored entry (the first 101), in order: the parsed value of an entry
\* that is JSON, the raw string of one that is not.
C8_HealthLogOutput ==
    HealthLogCommand =>
        /\ (reply.keysDone /\ getKeysResult(reply.keysErr, reply.keys) = <<>>) =>
              /\ out \in { <<[k |-> "array", v |-> <<>>]>>,
                           <<[k |-> "array", v |-> <<>>], [k |-> " ", v |-> <<>>]>> }
              /\ Issued("lrange") \cup Issued("exec") = {}
        /\ (Len(reply.lists) = 1 /\ Lines("error") = {}) =>
              /\ Cardinality(Lines("array")) = 1
              /\ \A i \in Lines("array") : out[i].v = ExpectedHealthLog

\* C9: an error from the wildcard key enumeration is never printed and counts
\* as no keys (`routes` prints {}, `healthlog` prints []); an error reading
\* one service's route set is printed, no result object is, and `routes`
\* goes to shutdown.
C9_ErrorPolicy ==
    /\ (HasCommand /\ reply.keysErr) =>
          /\ Lines("error") = {}
          /\ Issued("smembers") \cup Issued("lrange") \cup Issued("exec") = {}
          /\ Command = w_healthlog => Lines("array") # {} /\ ShutdownReached
          /\ (Command = w_routes /\ pc = "exited") => exitVia = "exitApp"
          /\ (Command = w_routes /\ ShutdownReached) =>
                (Lines("object") # {} /\ \A i \in Lines("object") : out[i].v = <<>>)
    /\ (HasCommand /\ Command = w_routes /\ rt.firstErr # 0) =>
          /\ Lines("object") = {}
          /\ rt.chain \in {"all", "caught"}
          /\ rt.chain = "caught" =>
                /\ Cardinality(Lines("error")) = 1
                /\ ShutdownReached
          /\ pc = "exited" => (exitVia = "exitApp" /\ rt.chain = "caught")

C9_Witness ==
    /\ HasCommand
    /\ Command = w_routes
    /\ Len(rt.promises) = 2
    /\ rt.promises[1].st = "resolved"
    /\ rt.promises[2].st = "rejected"
    /\ Lines("error") # {}
    /\ Lines("object") = {}
    /\ exitVia = "exitApp"

ExpectedHandler ==
    IF Command = w_config THEN "handleConfigCommand"
    ELSE IF Command = w_help THEN "displayHelp"
    ELSE IF Command = w_rest THEN "handleRest"
    ELSE IF Command = w_routes THEN "handleRoutes"
    ELSE IF Command = w_healthlog THEN "handleHealthLog"
    ELSE IF Command = w_message /\ Len(Args) >= 1 /\ Args[1] = w_create
    THEN "handleMessageCreate"
    ELSE IF Command = w_message /\ Len(Args) >= 1 /\ Args[1] = w_send
    THEN "handleMessageSend"
    ELSE IF Command = w_nodes /\ (Len(Args) = 0 \/ Args[1] = w_list)
    THEN "handleNodesList"
    ELSE IF Command = w_nodes /\ Args[1] = w_remove THEN "handleNodesRemove"
    ELSE "none"

ExpectedDiagnostic ==
    IF Command = w_message
    THEN [k |-> "Unknown message options: ",
          v |-> IF Len(Args) = 0 THEN Undefined ELSE Args[1]]
    ELSE IF Command = w_nodes THEN [k |-> "Unknown nodes options: ", v |-> Args[1]]
    ELSE [k |-> "Unknown command: ", v |-> Command]

Unknowns ==
    Lines("Unknown command: ") \cup Lines("Unknown message options: ")
    \cup Lines("Unknown nodes options: ")

\* C10: the dispatcher takes exactly one branch.  A recognised verb (with a
\* recognised sub-verb for message and nodes, bare `nodes` being `nodes
\* list`) invokes exactly its handler; an unknown verb, an unknown or missing
\* sub-verb of message and an unknown sub-verb of nodes print one diagnostic
\* naming the token, invoke no handler, open no connection and go to the
\* grace-delay shutdown.
C10_DispatchOneBranch ==
    Dispatched =>
        IF ExpectedHandler # "none"
        THEN called = <<ExpectedHandler>> /\ Unknowns = {}
        ELSE /\ called = <<>>
             /\ out \in { <<ExpectedDiagnostic>>,
                          <<ExpectedDiagnostic, [k |-> " ", v |-> <<>>]>> }
             /\ ~conn.opened
             /\ queries = <<>>
             /\ ShutdownReached
             /\ pc = "exited" => exitVia = "exitApp"

C10_Witness ==
    /\ HasCommand
    /\ Command = w_nodes
    /\ Args = <<w_bogus>>
    /\ called = <<>>
    /\ exitVia = "exitApp"

====
